---- MODULE Spec2Model ----
(***************************************************************************)
(* Control plane API of Agent Resources (control-plane/api/main.py).       *)
(*                                                                         *)
(* The state is the relational store (one variable per table the handlers  *)
(* name in their SQL) and, per worker, the request it is serving: the      *)
(* inputs of the route, the position in the handler, the SQLAlchemy        *)
(* session's transaction-local setting app.current_tenant, and the         *)
(* response.  One action is one statement of a handler together with the   *)
(* db.commit() that follows it: under READ COMMITTED an uncommitted write  *)
(* is invisible to every other session, so the pair is one observable      *)
(* step.  Reads are separate actions, so requests interleave between the   *)
(* statements of promote_version exactly as two workers' sessions do.      *)
(*                                                                         *)
(* A worker is a server process (a uvicorn worker or a replica) with its   *)
(* own event loop; the workers share nothing but the store.  The handlers  *)
(* are coroutines that never await, so requests of ONE process do not      *)
(* interleave inside a handler; requests of different processes do.        *)
(***************************************************************************)
EXTENDS Integers, Sequences, FiniteSets, TLC

\* ------------------------------------------------------------------ bounds
NumWorkers == 2
MaxTemplates == 1
MaxVersions == 1
MaxPolicies == 1
MaxInstances == 1

Workers == 1..NumWorkers
Tenants == {"T1", "T2"}
NoTenant == "none"
NoData == "-"

\* ------------------------------------------------------------- request inputs
\* The Authorization header, by what get_current_tenant can tell apart:
\* whether it is there, whether it starts with "Bearer ", whether the token
\* decodes, and the "tenant_id" claim of the payload.
NotAUuid == "not-a-uuid"
Authorizations ==
    { [present |-> FALSE, bearer |-> FALSE, decodes |-> FALSE, tenant_id |-> NoTenant],
      [present |-> TRUE,  bearer |-> FALSE, decodes |-> FALSE, tenant_id |-> NoTenant],
      [present |-> TRUE,  bearer |-> TRUE,  decodes |-> FALSE, tenant_id |-> NoTenant],
      [present |-> TRUE,  bearer |-> TRUE,  decodes |-> TRUE,  tenant_id |-> NoTenant],
      [present |-> TRUE,  bearer |-> TRUE,  decodes |-> TRUE,  tenant_id |-> NotAUuid] }
    \cup { [present |-> TRUE, bearer |-> TRUE, decodes |-> TRUE, tenant_id |-> t] : t \in Tenants }

\* CreateVersionRequest bodies.
CreateVersionRequest ==
    { [version_label |-> "1.0", artifact_hash |-> "sha-a", model_bundle |-> "model-a",
       prompt_bundle |-> "prompt-a", tool_manifest |-> "tools-a"],
      [version_label |-> "2.0", artifact_hash |-> "sha-b", model_bundle |-> "model-b",
       prompt_bundle |-> "prompt-b", tool_manifest |-> "tools-b"] }

\* CreateTemplateRequest.name.
TemplateNames == {"planner"}

\* The status query parameter of PATCH /v1/instances/{id}: any string.
StatusParams == {"paused", "bogus"}

ReleaseStatus == {"draft", "candidate", "approved", "rejected", "retired"}
InstanceStatus == {"provisioning", "active", "paused", "quarantined", "retired"}

VARIABLES
    agent_templates,    \* template_id -> row
    agent_versions,     \* version_id -> row
    policy_envelopes,   \* policy_id -> row
    agent_instances,    \* instance_id -> row
    evaluation_runs,    \* set of rows, written only by the evaluation collaborator
    events,             \* sequence of rows, in insertion order
    unbound_rows,       \* what the store shows a session with no tenant bound
    req                 \* worker -> the request it serves

store == <<agent_templates, agent_versions, policy_envelopes, agent_instances,
           evaluation_runs, events>>
vars == <<agent_templates, agent_versions, policy_envelopes, agent_instances,
          evaluation_runs, events, unbound_rows, req>>

\* ------------------------------------------------------------------ responses
NoResponse == [code |-> 0, detail |-> "", body |-> NoData]
Ok(body) == [code |-> 200, detail |-> "", body |-> body]
HTTPException(code, detail) == [code |-> code, detail |-> detail, body |-> NoData]
\* An exception no handler catches (a driver error, ValueError): FastAPI's 500.
ServerError == [code |-> 500, detail |-> "Internal Server Error", body |-> NoData]

Idle == [pc |-> "idle", op |-> NoData, authorization |-> NoData, id |-> 0, id2 |-> 0,
         data |-> NoData, current_tenant |-> NoTenant, tenant_id |-> NoTenant,
         executed |-> 0, response |-> NoResponse]

\* ---------------------------------------------------------------- the store
\* Row security of the Tenant-Scoped Store.  A unit of work bound to a tenant
\* sees and writes that tenant's rows only.  For a session with no tenant
\* bound the policy either hides every row and rejects every write, or does
\* not apply (the role owns the tables): unbound_rows, fixed per deployment.
Scoped(current_tenant, row_tenant) ==
    IF current_tenant # NoTenant THEN row_tenant = current_tenant
    ELSE unbound_rows = "all"

\* The ids of the rows of `table` a statement of this session can see.
Select(current_tenant, table) ==
    { i \in DOMAIN table : Scoped(current_tenant, table[i].tenant_id) }

\* uuid.uuid4(): an id no row has.  Rows are never deleted, so the ids in
\* use are 1..n and n also orders the rows by creation.
NewId(table) == Cardinality(DOMAIN table) + 1

\* created_at DEFAULT now(): later for every later insert.
Now == Cardinality(DOMAIN agent_templates) + Cardinality(DOMAIN agent_versions)
       + Cardinality(DOMAIN policy_envelopes) + Cardinality(DOMAIN agent_instances)

\* ORDER BY created_at DESC over the rows `ids` of `table`.
RECURSIVE OrderByCreatedAtDesc(_, _)
OrderByCreatedAtDesc(ids, table) ==
    IF ids = {} THEN << >>
    ELSE LET newest == CHOOSE i \in ids :
                           \A j \in ids : table[j].created_at <= table[i].created_at
         IN  <<newest>> \o OrderByCreatedAtDesc(ids \ {newest}, table)

Init ==
    /\ agent_templates = << >>
    /\ agent_versions = << >>
    /\ policy_envelopes = << >>
    /\ agent_instances = << >>
    /\ evaluation_runs = {}
    /\ events = << >>
    /\ unbound_rows \in {"all", "none"}
    /\ req = [w \in Workers |-> Idle]

\* The request of worker w finishes with `response`.
Respond(w, response) ==
    req' = [req EXCEPT ![w].pc = "done", ![w].response = response]


\* ------------------------------------------------------------ the requests
Request(op, id, id2, data) == [op |-> op, id |-> id, id2 |-> id2, data |-> data]

TemplateRequests ==
    { Request("create_template", 0, 0, n) : n \in TemplateNames }
    \cup { Request("list_templates", 0, 0, NoData) }
VersionRequests ==
    { Request("create_version", t, 0, b) : t \in 1..MaxTemplates, b \in CreateVersionRequest }
    \cup { Request("get_version", v, 0, NoData) : v \in 1..MaxVersions }
PromoteRequests ==
    { Request("promote_version", v, 0, NoData) : v \in 1..MaxVersions }
PolicyRequests ==
    { Request("create_policy", 0, 0, NoData), Request("list_policies", 0, 0, NoData) }
    \cup { Request("get_policy", p, 0, NoData) : p \in 1..MaxPolicies }
InstanceRequests ==
    { Request("create_instance", v, p, NoData) : v \in 1..MaxVersions, p \in 1..MaxPolicies }
    \cup { Request("list_instances", 0, 0, NoData) }
    \cup { Request("update_instance", i, 0, s) : i \in 1..MaxInstances, s \in StatusParams }

\* Requests of `op` that a worker is serving.
InFlight(op) ==
    Cardinality({ w \in Workers : req[w].op = op /\ req[w].pc \notin {"idle", "done"} })

\* The model's tables are bounded: a create request is taken only while a
\* row is left for it.
RoomFor(r) ==
    /\ r.op = "create_template" => NewId(agent_templates) + InFlight(r.op) <= MaxTemplates
    /\ r.op = "create_version" => NewId(agent_versions) + InFlight(r.op) <= MaxVersions
    /\ r.op = "create_policy" => NewId(policy_envelopes) + InFlight(r.op) <= MaxPolicies
    /\ r.op = "create_instance" => NewId(agent_instances) + InFlight(r.op) <= MaxInstances

\* A request arrives at worker w: FastAPI resolves the route's dependencies,
\* get_db (one Session per request, shared by both Depends) and then
\* get_current_tenant.
Receive(w, r, a) ==
    /\ req[w].pc = "idle"
    /\ RoomFor(r)
    /\ req' = [req EXCEPT ![w] = [Idle EXCEPT !.pc = "auth", !.op = r.op, !.id = r.id,
                                              !.id2 = r.id2, !.data = r.data,
                                              !.authorization = a]]
    /\ UNCHANGED <<store, unbound_rows>>

\* The response has been sent; get_db's finally closes the session.
Finish(w) ==
    /\ req[w].pc = "done"
    /\ req' = [req EXCEPT ![w] = Idle]
    /\ UNCHANGED <<store, unbound_rows>>

\* GET /health: no dependency, no store access.
health(w) ==
    /\ req[w].pc = "idle"
    /\ req' = [req EXCEPT ![w] = [Idle EXCEPT !.pc = "done", !.op = "health",
                   !.response = Ok([status |-> "ok", service |-> "control-plane"])]]
    /\ UNCHANGED <<store, unbound_rows>>

\* ------------------------------------------------------ get_current_tenant
\* Seeded fault (C8): lines 68-69, the test of the tenant_id claim, left out.
RejectionWithoutTenantTest(a) ==
    IF ~a.present \/ ~a.bearer THEN "Missing or invalid authorization"
    ELSE IF ~a.decodes THEN "Invalid token: decode error"
    ELSE ""

\* Lines 59-71: what the header is rejected for, or "" when it is accepted.
Rejection(a) ==
    IF ~a.present \/ ~a.bearer THEN "Missing or invalid authorization"
    ELSE IF ~a.decodes THEN "Invalid token: decode error"
    ELSE IF a.tenant_id = NoTenant THEN "Invalid token: Token missing tenant_id"
    ELSE ""

\* Lines 59-74: the checks, then SET LOCAL app.current_tenant in the
\* session's transaction.
get_current_tenant(w) ==
    LET a == req[w].authorization IN
    /\ req[w].pc = "auth"
    /\ IF Rejection(a) # ""
       THEN Respond(w, HTTPException(401, Rejection(a)))
       ELSE req' = [req EXCEPT ![w].pc = "auth_commit",
                               ![w].current_tenant = a.tenant_id,
                               ![w].executed = @ + 1]
    /\ UNCHANGED <<store, unbound_rows>>

\* Lines 75-77: db.commit() ends the transaction, and with it the effect of
\* SET LOCAL; uuid.UUID(tenant_id) raises ValueError on a malformed claim.
get_current_tenant_commit(w) ==
    /\ req[w].pc = "auth_commit"
    /\ IF req[w].authorization.tenant_id \in Tenants
       THEN req' = [req EXCEPT ![w].pc = "handler",
                               ![w].current_tenant = NoTenant,
                               ![w].tenant_id = req[w].authorization.tenant_id]
       ELSE req' = [req EXCEPT ![w].pc = "done",
                               ![w].current_tenant = NoTenant,
                               ![w].response = ServerError]
    /\ UNCHANGED <<store, unbound_rows>>

\* Worker w is at the body of handler `op`.
At(w, op) == req[w].pc = "handler" /\ req[w].op = op

\* One more db.execute by w, answered with `response`.
Executed(w, response) ==
    req' = [req EXCEPT ![w].pc = "done", ![w].executed = @ + 1, ![w].response = response]


\* ------------------------------------------------- routes: templates, versions
\* INSERT INTO <table>: the row security's check of the new row.
WithCheck(w) == Scoped(req[w].current_tenant, req[w].tenant_id)

create_template(w) ==
    LET template_id == NewId(agent_templates) IN
    /\ At(w, "create_template")
    /\ IF WithCheck(w)
       THEN /\ agent_templates' = agent_templates @@
                    (template_id :> [tenant_id |-> req[w].tenant_id, name |-> req[w].data,
                                     created_at |-> Now])
            /\ Executed(w, Ok([template_id |-> template_id, name |-> req[w].data]))
       ELSE /\ Executed(w, ServerError)
            /\ UNCHANGED agent_templates
    /\ UNCHANGED <<agent_versions, policy_envelopes, agent_instances, evaluation_runs,
                   events, unbound_rows>>

list_templates(w) ==
    /\ At(w, "list_templates")
    /\ Executed(w, Ok(OrderByCreatedAtDesc(
                          Select(req[w].current_tenant, agent_templates), agent_templates)))
    /\ UNCHANGED <<store, unbound_rows>>

\* agent_versions.template_id REFERENCES agent_templates: the store checks
\* that the row exists when the version is inserted (the check of a foreign
\* key is not subject to row security).
TemplateExists(template_id) == template_id \in DOMAIN agent_templates

create_version(w) ==
    LET version_id == NewId(agent_versions)
        r == req[w] IN
    /\ At(w, "create_version")
    /\ IF WithCheck(w) /\ TemplateExists(r.id)
       THEN /\ agent_versions' = agent_versions @@
                    (version_id :> [template_id |-> r.id,
                                    tenant_id |-> r.tenant_id,
                                    version_label |-> r.data.version_label,
                                    artifact_hash |-> r.data.artifact_hash,
                                    model_bundle |-> r.data.model_bundle,
                                    prompt_bundle |-> r.data.prompt_bundle,
                                    tool_manifest |-> r.data.tool_manifest,
                                    release_status |-> "draft",
                                    created_at |-> Now])
            /\ Executed(w, Ok([version_id |-> version_id, template_id |-> r.id,
                               release_status |-> "draft"]))
       ELSE /\ Executed(w, ServerError)
            /\ UNCHANGED agent_versions
    /\ UNCHANGED <<agent_templates, policy_envelopes, agent_instances, evaluation_runs,
                   events, unbound_rows>>

get_version(w) ==
    LET r == req[w]
        result == Select(r.current_tenant, agent_versions) \cap {r.id} IN
    /\ At(w, "get_version")
    /\ IF result = {}
       THEN Executed(w, HTTPException(404, "Version not found"))
       ELSE Executed(w, Ok([version_id |-> r.id,
                            template_id |-> agent_versions[r.id].template_id,
                            version_label |-> agent_versions[r.id].version_label,
                            release_status |-> agent_versions[r.id].release_status,
                            model_bundle |-> agent_versions[r.id].model_bundle,
                            prompt_bundle |-> agent_versions[r.id].prompt_bundle]))
    /\ UNCHANGED <<store, unbound_rows>>

\* ---------------------------------------------------------- promote_version
\* Seeded fault (C10): line 256 reduced to "if not current", the comparison
\* with 'candidate' left out.
IsPresent(current_tenant, version_id) ==
    version_id \in Select(current_tenant, agent_versions)

\* Lines 251-257: SELECT release_status, and the precondition.
IsCandidate(current_tenant, version_id) ==
    /\ version_id \in Select(current_tenant, agent_versions)
    /\ agent_versions[version_id].release_status = "candidate"

\* Seeded fault (C16): the evaluation gate is consulted before the status.
promote_select_gate_first(w) ==
    /\ At(w, "promote_version")
    /\ IF ~\E e \in evaluation_runs : e.version_id = req[w].id /\ e.status = "passed"
       THEN Executed(w, HTTPException(400, "No passing evaluation found"))
       ELSE IF IsCandidate(req[w].current_tenant, req[w].id)
            THEN req' = [req EXCEPT ![w].pc = "promote_update", ![w].executed = @ + 2]
            ELSE Executed(w, HTTPException(400, "Version must be in 'candidate' status"))
    /\ UNCHANGED <<store, unbound_rows>>

promote_select_status(w) ==
    /\ At(w, "promote_version")
    /\ IF IsCandidate(req[w].current_tenant, req[w].id)
       THEN req' = [req EXCEPT ![w].pc = "promote_eval", ![w].executed = @ + 1]
       ELSE Executed(w, HTTPException(400, "Version must be in 'candidate' status"))
    /\ UNCHANGED <<store, unbound_rows>>

\* Seeded fault (C2): line 264 without "AND status = 'passed'".
HasAnyEvaluation(version_id) ==
    \E e \in evaluation_runs : e.version_id = version_id

\* Lines 260-271: SELECT ... FROM evaluation_runs WHERE version_id = :vid AND
\* status = 'passed' ... LIMIT 1 finds a row.
HasPassingEvaluation(version_id) ==
    \E e \in evaluation_runs : e.version_id = version_id /\ e.status = "passed"

promote_select_evaluation(w) ==
    /\ req[w].pc = "promote_eval"
    /\ IF HasPassingEvaluation(req[w].id)
       THEN req' = [req EXCEPT ![w].pc = "promote_update", ![w].executed = @ + 1]
       ELSE Executed(w, HTTPException(400, "No passing evaluation found"))
    /\ UNCHANGED <<store, unbound_rows>>

\* Lines 274-278: UPDATE agent_versions SET release_status = 'approved' WHERE
\* version_id = :vid, and the first db.commit().
Promoted(current_tenant, version_id) ==
    [v \in DOMAIN agent_versions |->
        IF v = version_id /\ v \in Select(current_tenant, agent_versions)
        THEN [agent_versions[v] EXCEPT !.release_status = "approved"]
        ELSE agent_versions[v]]

\* Seeded fault (C19): approving a version also activates its instances.
promote_update_activating(w) ==
    /\ req[w].pc = "promote_update"
    /\ agent_versions' = Promoted(req[w].current_tenant, req[w].id)
    /\ agent_instances' = [i \in DOMAIN agent_instances |->
                              IF agent_instances[i].version_id = req[w].id
                              THEN [agent_instances[i] EXCEPT !.status = "active"]
                              ELSE agent_instances[i]]
    /\ req' = [req EXCEPT ![w].pc = "promote_event", ![w].executed = @ + 1]
    /\ UNCHANGED <<agent_templates, policy_envelopes, evaluation_runs,
                   events, unbound_rows>>

promote_update(w) ==
    /\ req[w].pc = "promote_update"
    /\ agent_versions' = Promoted(req[w].current_tenant, req[w].id)
    /\ req' = [req EXCEPT ![w].pc = "promote_event", ![w].executed = @ + 1]
    /\ UNCHANGED <<agent_templates, policy_envelopes, agent_instances, evaluation_runs,
                   events, unbound_rows>>

\* Seeded fault (C12): the event is filed under the version's tenant, not
\* under the tenant of the request (:tid).
PromotedEventOfOwner(tenant_id, version_id) ==
    [tenant_id |-> agent_versions[version_id].tenant_id,
     event_type |-> "AgentVersionPromoted",
     actor_type |-> "system", actor_id |-> tenant_id,
     payload |-> [version_id |-> version_id, from |-> "candidate", to |-> "approved"]]

\* Lines 281-293: INSERT INTO events, the second db.commit(), and the return.
PromotedEvent(tenant_id, version_id) ==
    [tenant_id |-> tenant_id, event_type |-> "AgentVersionPromoted",
     actor_type |-> "system", actor_id |-> tenant_id,
     payload |-> [version_id |-> version_id, from |-> "candidate", to |-> "approved"]]

promote_emit_event(w) ==
    /\ req[w].pc = "promote_event"
    /\ IF WithCheck(w)
       THEN /\ events' = Append(events, PromotedEvent(req[w].tenant_id, req[w].id))
            /\ Executed(w, Ok([version_id |-> req[w].id, release_status |-> "approved"]))
       ELSE /\ Executed(w, ServerError)
            /\ UNCHANGED events
    /\ UNCHANGED <<agent_templates, agent_versions, policy_envelopes, agent_instances,
                   evaluation_runs, unbound_rows>>


\* ---------------------------------------------------------- routes: instances
\* agent_instances.version_id and .policy_envelope_id REFERENCE their tables.
VersionExists(version_id) == version_id \in DOMAIN agent_versions
PolicyExists(policy_id) == policy_id \in DOMAIN policy_envelopes

create_instance(w) ==
    LET instance_id == NewId(agent_instances)
        r == req[w] IN
    /\ At(w, "create_instance")
    /\ IF WithCheck(w) /\ VersionExists(r.id) /\ PolicyExists(r.id2)
       THEN /\ agent_instances' = agent_instances @@
                    (instance_id :> [version_id |-> r.id,
                                     tenant_id |-> r.tenant_id,
                                     policy_envelope_id |-> r.id2,
                                     status |-> "provisioning",
                                     created_at |-> Now])
            /\ Executed(w, Ok([instance_id |-> instance_id, status |-> "provisioning"]))
       ELSE /\ Executed(w, ServerError)
            /\ UNCHANGED agent_instances
    /\ UNCHANGED <<agent_templates, agent_versions, policy_envelopes, evaluation_runs,
                   events, unbound_rows>>

\* FROM agent_instances i JOIN agent_versions v ... JOIN agent_templates t ...:
\* the instances whose version and whose version's template the session sees.
JoinedInstances(current_tenant) ==
    { i \in Select(current_tenant, agent_instances) :
        /\ agent_instances[i].version_id \in Select(current_tenant, agent_versions)
        /\ agent_versions[agent_instances[i].version_id].template_id
               \in Select(current_tenant, agent_templates) }

InstanceEntry(i) ==
    LET v == agent_versions[agent_instances[i].version_id] IN
    [instance_id |-> i,
     version_id |-> agent_instances[i].version_id,
     status |-> agent_instances[i].status,
     created_at |-> agent_instances[i].created_at,
     version_label |-> v.version_label,
     template_name |-> agent_templates[v.template_id].name]

list_instances(w) ==
    LET ids == OrderByCreatedAtDesc(JoinedInstances(req[w].current_tenant), agent_instances) IN
    /\ At(w, "list_instances")
    /\ Executed(w, Ok([k \in 1..Len(ids) |-> InstanceEntry(ids[k])]))
    /\ UNCHANGED <<store, unbound_rows>>

\* UPDATE agent_instances SET status = :status WHERE instance_id = :iid.
StatusSet(current_tenant, instance_id, status) ==
    [i \in DOMAIN agent_instances |->
        IF i = instance_id /\ i \in Select(current_tenant, agent_instances)
        THEN [agent_instances[i] EXCEPT !.status = status]
        ELSE agent_instances[i]]

update_instance(w) ==
    /\ At(w, "update_instance")
    /\ agent_instances' = StatusSet(req[w].current_tenant, req[w].id, req[w].data)
    /\ Executed(w, Ok([instance_id |-> req[w].id, status |-> req[w].data]))
    /\ UNCHANGED <<agent_templates, agent_versions, policy_envelopes, evaluation_runs,
                   events, unbound_rows>>

\* ----------------------------------------------------------- routes: policies
create_policy(w) ==
    LET policy_id == NewId(policy_envelopes) IN
    /\ At(w, "create_policy")
    /\ IF WithCheck(w)
       THEN /\ policy_envelopes' = policy_envelopes @@
                    (policy_id :> [tenant_id |-> req[w].tenant_id, created_at |-> Now])
            /\ Executed(w, Ok([policy_id |-> policy_id]))
       ELSE /\ Executed(w, ServerError)
            /\ UNCHANGED policy_envelopes
    /\ UNCHANGED <<agent_templates, agent_versions, agent_instances, evaluation_runs,
                   events, unbound_rows>>

list_policies(w) ==
    /\ At(w, "list_policies")
    /\ Executed(w, Ok(OrderByCreatedAtDesc(
                          Select(req[w].current_tenant, policy_envelopes), policy_envelopes)))
    /\ UNCHANGED <<store, unbound_rows>>

get_policy(w) ==
    LET result == Select(req[w].current_tenant, policy_envelopes) \cap {req[w].id} IN
    /\ At(w, "get_policy")
    /\ IF result = {}
       THEN Executed(w, HTTPException(404, "Policy not found"))
       ELSE Executed(w, Ok([policy_id |-> req[w].id]))
    /\ UNCHANGED <<store, unbound_rows>>

\* ------------------------------------------------------ external collaborators
\* The transition draft -> candidate, which no route performs.
submit_candidate(v) ==
    /\ v \in DOMAIN agent_versions
    /\ agent_versions[v].release_status = "draft"
    /\ agent_versions' = [agent_versions EXCEPT ![v].release_status = "candidate"]
    /\ UNCHANGED <<agent_templates, policy_envelopes, agent_instances, evaluation_runs,
                   events, unbound_rows, req>>

\* The evaluation collaborator records a run of version v.
evaluation_run(v, status) ==
    /\ v \in DOMAIN agent_versions
    /\ [version_id |-> v, status |-> status] \notin evaluation_runs
    /\ evaluation_runs' = evaluation_runs \cup {[version_id |-> v, status |-> status]}
    /\ UNCHANGED <<agent_templates, agent_versions, policy_envelopes, agent_instances,
                   events, unbound_rows, req>>

\* ------------------------------------------------------------ specifications
Requests == TemplateRequests \cup VersionRequests \cup PromoteRequests
            \cup PolicyRequests \cup InstanceRequests

\* A step of worker w in the request it serves.
Serve(w) ==
    \/ get_current_tenant(w)
    \/ get_current_tenant_commit(w)
    \/ create_template(w)
    \/ list_templates(w)
    \/ create_version(w)
    \/ get_version(w)
    \/ promote_select_status(w)
    \/ promote_select_evaluation(w)
    \/ promote_update(w)
    \/ promote_emit_event(w)
    \/ create_instance(w)
    \/ list_instances(w)
    \/ update_instance(w)
    \/ create_policy(w)
    \/ list_policies(w)
    \/ get_policy(w)
    \/ Finish(w)

External ==
    \/ \E v \in 1..MaxVersions : submit_candidate(v)
    \/ \E v \in 1..MaxVersions, s \in {"passed", "failed"} : evaluation_run(v, s)

\* The whole API, any credential, the requests one after another (one
\* worker serves them all).
FirstWorker == CHOOSE w \in Workers : \A u \in Workers : w <= u

Next ==
    \/ \E r \in Requests, a \in Authorizations : Receive(FirstWorker, r, a)
    \/ health(FirstWorker)
    \/ Serve(FirstWorker)
    \/ External

Spec == Init /\ [][Next]_vars

\* The whole API with no collaborator that submits a version as candidate:
\* the statements of promote_version after its first are left out, no
\* request gets to them (C18 states just that).
ServeDraft(w) ==
    \/ get_current_tenant(w)
    \/ get_current_tenant_commit(w)
    \/ create_template(w)
    \/ list_templates(w)
    \/ create_version(w)
    \/ get_version(w)
    \/ promote_select_status(w)
    \/ create_instance(w)
    \/ list_instances(w)
    \/ update_instance(w)
    \/ create_policy(w)
    \/ list_policies(w)
    \/ get_policy(w)
    \/ Finish(w)

NextDraft ==
    \/ \E r \in Requests, a \in Authorizations : Receive(FirstWorker, r, a)
    \/ health(FirstWorker)
    \/ ServeDraft(FirstWorker)
    \/ \E v \in 1..MaxVersions, s \in {"passed", "failed"} : evaluation_run(v, s)

SpecDraft == Init /\ [][NextDraft]_vars

\* The lifecycle of a version, requests of authenticated tenants served
\* concurrently by all workers.
TenantTokens == { a \in Authorizations : a.tenant_id \in Tenants }
LifecycleRequests ==
    { r \in Requests : r.op \in {"create_template", "create_version", "promote_version"} }

NextLifecycle ==
    \/ \E w \in Workers, r \in LifecycleRequests, a \in TenantTokens : Receive(w, r, a)
    \/ \E w \in Workers : get_current_tenant(w)
    \/ \E w \in Workers : get_current_tenant_commit(w)
    \/ \E w \in Workers : create_template(w)
    \/ \E w \in Workers : create_version(w)
    \/ \E w \in Workers : promote_select_status(w)
    \/ \E w \in Workers : promote_select_evaluation(w)
    \/ \E w \in Workers : promote_update(w)
    \/ \E w \in Workers : promote_emit_event(w)
    \/ \E w \in Workers : Finish(w)
    \/ External

SpecLifecycle == Init /\ [][NextLifecycle]_vars


\* ------------------------------------------------------------------ claims
\* Worker w has answered a request of `op` with a success.
Answered(w, op) ==
    req[w].pc = "done" /\ req[w].op = op /\ req[w].response.code = 200

\* The AgentVersionPromoted events that name version v.
PromotedEvents(v) ==
    { k \in 1..Len(events) : /\ events[k].event_type = "AgentVersionPromoted"
                             /\ events[k].payload.version_id = v }

\* C1: tenant isolation of reads.  Whatever list_templates, list_policies,
\* list_instances, get_version or get_policy returns to a request
\* authenticated as tenant T is a row whose tenant_id is T.
C1_ReadIsolation ==
    \A w \in Workers :
        LET T == req[w].tenant_id
            body == req[w].response.body IN
        /\ Answered(w, "list_templates") =>
               \A k \in 1..Len(body) : agent_templates[body[k]].tenant_id = T
        /\ Answered(w, "list_policies") =>
               \A k \in 1..Len(body) : policy_envelopes[body[k]].tenant_id = T
        /\ Answered(w, "list_instances") =>
               \A k \in 1..Len(body) : agent_instances[body[k].instance_id].tenant_id = T
        /\ Answered(w, "get_version") => agent_versions[body.version_id].tenant_id = T
        /\ Answered(w, "get_policy") => policy_envelopes[body.policy_id].tenant_id = T

\* C2: promote(v) succeeds if and only if v is candidate when the handler
\* reads its status and a passing evaluation run of v exists when the handler
\* looks it up; otherwise it ends with the precondition error (not candidate)
\* or the gating error (no passing run) respectively, and the step that ends
\* it leaves every release_status as it was.
C2_PromoteIffCandidateAndPassed ==
    [][\A w \in Workers :
          (req[w].op = "promote_version" /\ req'[w] # req[w]) =>
              LET v == req[w].id
                  candidate == /\ v \in DOMAIN agent_versions
                               /\ agent_versions[v].release_status = "candidate"
                  passed == [version_id |-> v, status |-> "passed"] \in evaluation_runs
                  failed(detail) == /\ req'[w].pc = "done"
                                    /\ req'[w].response = HTTPException(400, detail)
                                    /\ agent_versions' = agent_versions
              IN  /\ req[w].pc = "handler" =>
                         IF candidate THEN req'[w].pc = "promote_eval"
                         ELSE failed("Version must be in 'candidate' status")
                  /\ req[w].pc = "promote_eval" =>
                         IF passed THEN req'[w].pc = "promote_update"
                         ELSE failed("No passing evaluation found")
                  /\ req[w].pc = "promote_update" => req'[w].pc = "promote_event"
                  /\ req[w].pc = "promote_event" =>
                         req'[w].pc = "done" /\ req'[w].response.code = 200
                  /\ (req'[w].pc = "done" /\ req'[w].response.code = 200) =>
                         /\ req[w].pc = "promote_event"
                         /\ agent_versions'[v].release_status = "approved"
      ]_vars

C2_Witness ==
    \E w \in Workers : Answered(w, "promote_version")

\* C3: of the promote requests for one version, at most one succeeds.
C3_OnePromoteSucceeds ==
    \A w1, w2 \in Workers :
        (/\ Answered(w1, "promote_version")
         /\ Answered(w2, "promote_version")
         /\ req[w1].id = req[w2].id) => w1 = w2

\* C4: when promote(v) has returned success, release_status(v) is approved
\* and the event log holds exactly one AgentVersionPromoted event naming v,
\* with from = candidate and to = approved.
C4_ApprovedWithOneEvent ==
    \A w \in Workers :
        Answered(w, "promote_version") =>
            /\ agent_versions[req[w].id].release_status = "approved"
            /\ Cardinality(PromotedEvents(req[w].id)) = 1
            /\ \A k \in PromotedEvents(req[w].id) :
                   events[k].payload.from = "candidate" /\ events[k].payload.to = "approved"

\* C5: in every committed state of the store a version is approved if and
\* only if its AgentVersionPromoted event is in the event log.
C5_StatusAndEventTogether ==
    \A v \in DOMAIN agent_versions :
        agent_versions[v].release_status = "approved" <=> PromotedEvents(v) # {}

\* C6: create_version under a template id that does not exist, or that is
\* another tenant's, is answered with NotFound (404) and creates no row.
C6_CreateVersionNotFound ==
    [][\A w \in Workers :
          (/\ req[w].pc = "handler" /\ req[w].op = "create_version"
           /\ req'[w].pc = "done"
           /\ \/ req[w].id \notin DOMAIN agent_templates
              \/ agent_templates[req[w].id].tenant_id # req[w].tenant_id)
          => /\ req'[w].response.code = 404
             /\ agent_versions' = agent_versions
      ]_vars

\* C7: a step of a request authenticated as tenant T changes no release_status
\* and no instance status of a row whose tenant_id is not T.
C7_WriteIsolation ==
    [][\A w \in Workers :
          (req[w].pc \notin {"idle", "done"} /\ req'[w] # req[w]) =>
              /\ \A v \in DOMAIN agent_versions :
                     agent_versions[v].tenant_id # req[w].tenant_id
                         => agent_versions'[v] = agent_versions[v]
              /\ \A i \in DOMAIN agent_instances :
                     agent_instances[i].tenant_id # req[w].tenant_id
                         => agent_instances'[i] = agent_instances[i]
      ]_vars

\* C8: a request (on any endpoint but /health) whose Authorization header is
\* missing, is not a Bearer token that decodes, or decodes to claims without
\* tenant_id, issues no statement to the store, is answered 401, and no step
\* of it changes the store.
Unauthenticated(a) ==
    ~a.present \/ ~a.bearer \/ ~a.decodes \/ a.tenant_id = NoTenant

C8_RejectedBeforeStoreAccess ==
    [][\A w \in Workers :
          (req'[w].pc # "idle" /\ req'[w].op # "health"
           /\ Unauthenticated(req'[w].authorization)) =>
              /\ req'[w].executed = 0
              /\ req'[w].pc \in {"auth", "done"}
              /\ req'[w].pc = "done" => req'[w].response.code = 401
              /\ req'[w] # req[w] => store' = store
      ]_vars

C8_Witness ==
    \E w \in Workers :
        /\ req[w].pc = "done" /\ req[w].op = "promote_version"
        /\ req[w].authorization.decodes /\ req[w].authorization.tenant_id = NoTenant
        /\ req[w].response.code = 401
        /\ \E v \in DOMAIN agent_versions : agent_versions[v].release_status = "candidate"

\* C9: get_version and get_policy answer a request of tenant T for an id that
\* is another tenant's row exactly as they answer one for an id no row has:
\* with the 404 of the route.
C9_NoExistenceLeak ==
    \A w \in Workers :
        /\ (/\ req[w].pc = "done" /\ req[w].op = "get_version"
            /\ req[w].tenant_id \in Tenants
            /\ \/ req[w].id \notin DOMAIN agent_versions
               \/ agent_versions[req[w].id].tenant_id # req[w].tenant_id)
           => req[w].response = HTTPException(404, "Version not found")
        /\ (/\ req[w].pc = "done" /\ req[w].op = "get_policy"
            /\ req[w].tenant_id \in Tenants
            /\ \/ req[w].id \notin DOMAIN policy_envelopes
               \/ policy_envelopes[req[w].id].tenant_id # req[w].tenant_id)
           => req[w].response = HTTPException(404, "Policy not found")

\* C10: release_status moves only along draft -> candidate, candidate ->
\* approved, candidate -> rejected and approved -> retired, and no step
\* changes artifact_hash, model_bundle, prompt_bundle or tool_manifest of an
\* existing version (or removes the version).
Forward ==
    { <<"draft", "candidate">>, <<"candidate", "approved">>,
      <<"candidate", "rejected">>, <<"approved", "retired">> }

C11_InstanceReferencesOwnTenant ==
    \A i \in DOMAIN agent_instances :
        LET row == agent_instances[i] IN
        /\ row.version_id \in DOMAIN agent_versions
        /\ row.policy_envelope_id \in DOMAIN policy_envelopes
        /\ agent_versions[row.version_id].tenant_id = row.tenant_id
        /\ policy_envelopes[row.policy_envelope_id].tenant_id = row.tenant_id

\* C12: the event log only grows by appending: a step leaves it as it is or
\* adds one event at its end, and the event added carries the tenant_id of
\* the request whose step added it.
C12_EventsAppendOnly ==
    [][\/ events' = events
       \/ /\ Len(events') = Len(events) + 1
          /\ SubSeq(events', 1, Len(events)) = events
          /\ \E w \in Workers :
                 /\ req[w].pc = "promote_event" /\ req'[w].pc = "done"
                 /\ events'[Len(events')].tenant_id = req[w].authorization.tenant_id
                 /\ events'[Len(events')].payload.version_id = req[w].id
      ]_vars

C12_Witness ==
    /\ Len(events) >= 1
    /\ \E k \in 1..Len(events) :
           events[k].tenant_id # agent_versions[events[k].payload.version_id].tenant_id

\* C13: update_instance with an instance id that names no row, or a row of
\* another tenant, is answered with NotFound (404) and changes no instance.
C13_UpdateInstanceNotFound ==
    [][\A w \in Workers :
          (/\ req[w].pc = "handler" /\ req[w].op = "update_instance"
           /\ req'[w].pc = "done"
           /\ \/ req[w].id \notin DOMAIN agent_instances
              \/ agent_instances[req[w].id].tenant_id # req[w].tenant_id)
          => /\ req'[w].response.code = 404
             /\ agent_instances' = agent_instances
      ]_vars

\* The rows of a table that belong to tenant T.
OwnRows(table, T) == { i \in DOMAIN table : table[i].tenant_id = T }

\* ids lists exactly the rows of tenant T, each once, newest first.
ExactlyOwnNewestFirst(ids, table, T) ==
    /\ { ids[k] : k \in 1..Len(ids) } = OwnRows(table, T)
    /\ Len(ids) = Cardinality(OwnRows(table, T))
    /\ \A j, k \in 1..Len(ids) :
           j < k => table[ids[j]].created_at >= table[ids[k]].created_at

\* C14: the list operations return exactly the caller's rows, newest first:
\* list_templates and list_policies the tenant's templates and policies,
\* list_instances the tenant's instances, each with the label of its version
\* and the name of that version's template.
C14_ListsExactlyOwnRows ==
    [][\A w \in Workers :
          LET T == req[w].tenant_id
              body == req'[w].response.body
              listed(op) == /\ req[w].pc = "handler" /\ req[w].op = op
                            /\ req'[w].pc = "done" IN
          /\ listed("list_templates") =>
                 /\ req'[w].response.code = 200
                 /\ ExactlyOwnNewestFirst(body, agent_templates, T)
          /\ listed("list_policies") =>
                 /\ req'[w].response.code = 200
                 /\ ExactlyOwnNewestFirst(body, policy_envelopes, T)
          /\ listed("list_instances") =>
                 /\ req'[w].response.code = 200
                 /\ ExactlyOwnNewestFirst([k \in 1..Len(body) |-> body[k].instance_id],
                                          agent_instances, T)
                 /\ \A k \in 1..Len(body) :
                        LET v == agent_versions[agent_instances[body[k].instance_id].version_id] IN
                        /\ body[k].version_label = v.version_label
                        /\ body[k].template_name = agent_templates[v.template_id].name
      ]_vars

\* C15: the tenant binding lasts for the whole unit of work: whenever a
\* handler is about to issue a statement for a request of tenant T, the
\* tenant bound in the request's session is T.
C15_BoundWhileHandling ==
    \A w \in Workers :
        req[w].pc \in {"handler", "promote_eval", "promote_update", "promote_event"}
            => req[w].current_tenant = req[w].tenant_id

\* The request of worker w ends in this step with error e.
EndsWith(w, e) == req[w].pc # "done" /\ req'[w].pc = "done" /\ req'[w].response = e

PreconditionError == HTTPException(400, "Version must be in 'candidate' status")
GatingError == HTTPException(400, "No passing evaluation found")

\* C16: promote looks at the status before the gate.  A promote of a version
\* that does not exist or is not candidate ends at its first statement with
\* the precondition error, whether or not a passing evaluation exists; the
\* gating error ends only a promote that found its version candidate; and the
\* two errors differ.
C16_StatusBeforeGate ==
    [][/\ PreconditionError # GatingError
       /\ \A w \in Workers :
            /\ (/\ req[w].pc = "handler" /\ req[w].op = "promote_version"
                /\ req'[w] # req[w]
                /\ \/ req[w].id \notin DOMAIN agent_versions
                   \/ agent_versions[req[w].id].release_status # "candidate")
               => EndsWith(w, PreconditionError)
            /\ (req[w].op = "promote_version" /\ EndsWith(w, GatingError))
               => /\ req[w].pc = "promote_eval"
                  /\ ~HasPassingEvaluation(req[w].id)
            /\ (req[w].op = "promote_version" /\ req'[w].pc = "promote_eval"
                /\ req[w].pc # "promote_eval")
               => /\ req[w].id \in DOMAIN agent_versions
                  /\ agent_versions[req[w].id].release_status = "candidate"
      ]_vars

\* A promote of a version that is not candidate (draft, or already approved),
\* and that has a passing evaluation, ended with the precondition error.
C16_Witness ==
    \E w \in Workers :
        /\ req[w].pc = "done" /\ req[w].op = "promote_version"
        /\ req[w].response = HTTPException(400, "Version must be in 'candidate' status")
        /\ req[w].id \in DOMAIN agent_versions
        /\ agent_versions[req[w].id].release_status = "draft"
        /\ HasPassingEvaluation(req[w].id)

\* C17: an instance is created with status provisioning, and after any
\* sequence of create_instance and update_instance every instance's status
\* is one of provisioning, active, paused, quarantined, retired.
C17_InstanceStatusDomain ==
    [][/\ \A i \in DOMAIN agent_instances' \ DOMAIN agent_instances :
              agent_instances'[i].status = "provisioning"
       /\ \A i \in DOMAIN agent_instances' :
              agent_instances'[i].status \in InstanceStatus
      ]_vars

\* C18: a version is created draft and no operation of the API moves it out
\* of draft: with no collaborator submitting versions as candidate, every
\* version stays draft and every authenticated promote ends at its first
\* statement with the precondition error.
C18_DraftForever ==
    /\ \A v \in DOMAIN agent_versions : agent_versions[v].release_status = "draft"
    /\ \A w \in Workers :
           (req[w].op = "promote_version" /\ req[w].pc \notin {"auth", "auth_commit", "handler"})
           => /\ req[w].pc = "done"
              /\ req[w].response.code # 200
              /\ req[w].tenant_id \in Tenants => req[w].response = PreconditionError

\* A promote by the owner of an existing draft version ended with the
\* precondition error.
C18_Witness ==
    \E w \in Workers :
        /\ req[w].pc = "done" /\ req[w].op = "promote_version"
        /\ req[w].id \in DOMAIN agent_versions
        /\ agent_versions[req[w].id].release_status = "draft"
        /\ agent_versions[req[w].id].tenant_id = req[w].tenant_id
        /\ req[w].response = PreconditionError

\* C19: no instance row is removed, and the status of an existing instance
\* changes only in the step of an update_instance request that names that
\* instance.
C19_StatusOnlyByUpdateInstance ==
    [][\A i \in DOMAIN agent_instances :
          /\ i \in DOMAIN agent_instances'
          /\ agent_instances'[i].status # agent_instances[i].status
             => \E w \in Workers :
                    /\ req[w].pc = "handler" /\ req[w].op = "update_instance"
                    /\ req[w].id = i
                    /\ req'[w].pc = "done"
                    /\ agent_instances'[i].status = req[w].data
      ]_vars

\* An update_instance request has moved the instance it names out of
\* provisioning.
C19_Witness ==
    \E w \in Workers :
        /\ Answered(w, "update_instance")
        /\ req[w].id \in DOMAIN agent_instances
        /\ agent_instances[req[w].id].status = req[w].data
        /\ agent_instances[req[w].id].status # "provisioning"

\* C20: every approved version has a passed evaluation run, no version has
\* more than one AgentVersionPromoted event, and a promote that fails appends
\* no event.
C20_ApprovalBackedAndRecordedOnce ==
    [][/\ \A v \in DOMAIN agent_versions' :
              /\ agent_versions'[v].release_status = "approved"
                 => \E e \in evaluation_runs' : e.version_id = v /\ e.status = "passed"
              /\ Cardinality({ k \in 1..Len(events') :
                                 /\ events'[k].event_type = "AgentVersionPromoted"
                                 /\ events'[k].payload.version_id = v }) <= 1
       /\ \A w \in Workers :
              (/\ req[w].op = "promote_version" /\ req[w].pc # "done"
               /\ req'[w].pc = "done" /\ req'[w].response.code # 200)
              => events' = events
      ]_vars

====
